---- MODULE Spec2Model ----
(***************************************************************************)
(* The weather source aggregator of backend-node/utils/apiFetcher.js:      *)
(* getLatestMetar / getLatestTaf over the module-level cache, the primary  *)
(* live source and the mock generators, called by concurrent async callers *)
(* on one event loop.                                                      *)
(*                                                                         *)
(* A station id is a sequence of one-character strings, so that            *)
(* toUpperCase and the template-literal cache key are computed, not        *)
(* assumed.  A raw report is a record of its tokens: the tokens before the *)
(* station, the station, and the tokens after it.                          *)
(***************************************************************************)
EXTENDS Integers, Sequences, FiniteSets, TLC

\* ------------------------------------------------------------------ bounds
MaxCalls == 2
MaxTicks == 1
MaxPayload == 1

\* --------------------------------------------------------- configuration
REQUEST_TIMEOUT == 10000
RETRY_ATTEMPTS == 3
CACHE_DURATION == 5 * 60 * 1000
DAY_MS == 24 * 60 * 60 * 1000

Calls == 1 .. MaxCalls
Products == {"metar", "taf"}

\* The station ids the callers pass: missing, upper case, lower case, and a
\* second station.
EmptyIcao == << >>
KJFK == <<"K", "J", "F", "K">>
kjfk == <<"k", "j", "f", "k">>
KLAX == <<"K", "L", "A", "X">>
KORD == <<"K", "O", "R", "D">>
KATL == <<"K", "A", "T", "L">>
KDEN == <<"K", "D", "E", "N">>
IcaoInputs == {EmptyIcao, KJFK, kjfk, KLAX}

\* The clock advances by one cache lifetime at a time, which is longer than the
\* request timeout: a request pending across a clock step has timed out.
TickStep == CACHE_DURATION

\* ----------------------------------------------------------------- strings
LowerLetters == <<"a", "b", "c", "d", "e", "f", "g", "h", "i", "j", "k", "l", "m",
                  "n", "o", "p", "q", "r", "s", "t", "u", "v", "w", "x", "y", "z">>
UpperLetters == <<"A", "B", "C", "D", "E", "F", "G", "H", "I", "J", "K", "L", "M",
                  "N", "O", "P", "Q", "R", "S", "T", "U", "V", "W", "X", "Y", "Z">>

UpperChar(ch) ==
    IF \E i \in 1 .. 26 : LowerLetters[i] = ch
    THEN UpperLetters[CHOOSE i \in 1 .. 26 : LowerLetters[i] = ch]
    ELSE ch

\* String.prototype.toUpperCase
toUpperCase(s) == [i \in 1 .. Len(s) |-> UpperChar(s[i])]

\* String(n).padStart(width, '0') for a non-negative integer n
padStart0(n, width) ==
    LET s == ToString(n)
        missing == width - Len(s)
    IN  IF missing >= 2 THEN "00" \o s
        ELSE IF missing = 1 THEN "0" \o s
        ELSE s

\* A raw report: the tokens before the station, the station, the tokens after.
RawText(pre, station, rest) == [pre |-> pre, station |-> station, rest |-> rest]

\* --------------------------------------------------------------- the cache
MetarPrefix == <<"m", "e", "t", "a", "r", "_">>
TafPrefix == <<"t", "a", "f", "_">>

\* A key that leaves the product out.
CacheKey_NoProduct(product, icao) == toUpperCase(icao)

\* `metar_${icao.toUpperCase()}` and `taf_${icao.toUpperCase()}`
CacheKey(product, icao) ==
    (IF product = "metar" THEN MetarPrefix ELSE TafPrefix) \o toUpperCase(icao)

\* The lifetime each lookup compares against: CACHE_DURATION in both functions.
CacheTtl(product) == CACHE_DURATION

\* The comparison turned around.
IsFresh_Inverted(product, entry, t) == t - entry.timestamp > CacheTtl(product)

\* An entry exactly one lifetime old still counted as fresh.
IsFresh_Inclusive(product, entry, t) == t - entry.timestamp <= CacheTtl(product)

\* Date.now() - cached.timestamp < CACHE_DURATION
IsFresh(product, entry, t) == t - entry.timestamp < CacheTtl(product)

\* cache.has(cacheKey) and the entry is fresh
CacheHit(c, product, key, t) == key \in DOMAIN c /\ IsFresh(product, c[key], t)

\* cache.set(cacheKey, { data, timestamp: Date.now() })
CacheSet(c, key, data, t) ==
    [k \in DOMAIN c \cup {key} |->
        IF k = key THEN [data |-> data, timestamp |-> t] ELSE c[k]]

\* -------------------------------------------------------- the live source
\* What the primary service answers (response.data): no entry, or one entry of
\* version v for the station asked for.
ServerData(product, icao, v) ==
    IF product = "metar"
    THEN << [rawOb |-> RawText(<< >>, icao, <<"OBS" \o ToString(v)>>),
             obsTime |-> v, icaoId |-> icao, lat |-> 40, lon |-> -73] >>
    ELSE << [rawTAF |-> RawText(<<"TAF">>, icao, <<"FCST" \o ToString(v)>>),
             issueTime |-> v, icaoId |-> icao, validTime |-> v] >>

ResponseKinds == {"ok", "empty", "error", "timeout"}

\* The settled axios.get: a response with data, or a rejection.
Response(product, icao, kind, v) ==
    IF kind = "ok" THEN [rejected |-> FALSE, data |-> ServerData(product, icao, v)]
    ELSE IF kind = "empty" THEN [rejected |-> FALSE, data |-> << >>]
    ELSE [rejected |-> TRUE, data |-> << >>]

Ok(value) == [ok |-> TRUE, value |-> value]
Thrown(message) == [ok |-> FALSE, value |-> [error |-> message]]

\* fetchMetarFromPrimary after the await: the record, or a thrown error.
\* A record of the primary source carries no source field.
fetchMetarFromPrimary(icao, resp) ==
    IF resp.rejected THEN Thrown("request failed")
    ELSE IF Len(resp.data) > 0
    THEN LET metarData == resp.data[1]
         IN  Ok([raw |-> metarData.rawOb,
                 observationTime |-> metarData.obsTime,
                 station |-> metarData.icaoId,
                 coordinates |-> [lat |-> metarData.lat, lon |-> metarData.lon],
                 source |-> "undefined"])
    ELSE Thrown("No METAR data available")

fetchTafFromPrimary(icao, resp) ==
    IF resp.rejected THEN Thrown("request failed")
    ELSE IF Len(resp.data) > 0
    THEN LET tafData == resp.data[1]
         IN  Ok([raw |-> tafData.rawTAF,
                 issueTime |-> tafData.issueTime,
                 station |-> tafData.icaoId,
                 validTime |-> tafData.validTime,
                 source |-> "undefined"])
    ELSE Thrown("No TAF data available")

fetchFromPrimary(product, icao, resp) ==
    IF product = "metar" THEN fetchMetarFromPrimary(icao, resp)
    ELSE fetchTafFromPrimary(icao, resp)

\* ----------------------------------------------------- the mock generators
\* The values of Math.floor(Math.random() * n) that are tried: both ends.
Lo(n, high) == IF high THEN n - 1 ELSE 0

\* The five draws of generateMockMetar, in the order the code makes them.
MetarDraws ==
    { [temp |-> Lo(20, a), dew |-> Lo(7, ~a), dir |-> Lo(36, a),
       speed |-> Lo(20, ~a), alt |-> Lo(30, a)] : a \in BOOLEAN }

generateMockMetar(icao, d, t) ==
    LET temp == d.temp + 10
        dew == temp - (d.dew + 2)
        windDir == padStart0(d.dir * 10, 3)
        windSpeed == d.speed + 2
        altimeter == 2990 + d.alt
        metarText ==
            RawText(<< >>, icao,
                <<"252153Z",
                  windDir \o (IF windSpeed < 10 THEN "0" ELSE "") \o ToString(windSpeed) \o "KT",
                  "10SM", "CLR",
                  ToString(temp) \o "/" \o ToString(dew),
                  "A" \o ToString(altimeter), "RMK", "AO2">>)
    IN  [raw |-> metarText,
         observationTime |-> t,
         station |-> icao,
         coordinates |-> [lat |-> 40, lon |-> -74],
         source |-> "mock"]

mockTafs(icao) ==
    IF icao = KJFK
    THEN <<"252030Z", "2521/2624", "24015G20KT", "P6SM", "BKN020", "TEMPO", "2521/2524", "BKN012">>
    ELSE IF icao = KLAX
    THEN <<"252030Z", "2521/2624", "25008KT", "P6SM", "SKC", "BECMG", "2602/2604", "BKN015">>
    ELSE IF icao = KORD
    THEN <<"252030Z", "2521/2624", "28012KT", "6SM", "BKN020", "TEMPO", "2521/2603", "4SM", "BR", "BKN010">>
    ELSE IF icao = KATL
    THEN <<"252030Z", "2521/2624", "31018G25KT", "P6SM", "SCT030", "BKN100">>
    ELSE IF icao = KDEN
    THEN <<"252030Z", "2521/2624", "25015KT", "P6SM", "FEW120", "SCT180">>
    ELSE <<"252030Z", "2521/2624", "00000KT", "P6SM", "SKC">>

\* A forecast text that embeds the time of generation.
generateMockTaf_Timed(icao, t) ==
    [raw |-> RawText(<<"TAF">>, icao, <<ToString(t)>> \o mockTafs(icao)),
     issueTime |-> t,
     station |-> icao,
     validTime |-> t + DAY_MS,
     source |-> "mock"]

generateMockTaf(icao, t) ==
    [raw |-> RawText(<<"TAF">>, icao, mockTafs(icao)),
     issueTime |-> t,
     station |-> icao,
     validTime |-> t + DAY_MS,
     source |-> "mock"]

generateMock(product, icao, d, t) ==
    IF product = "metar" THEN generateMockMetar(icao, d, t)
    ELSE generateMockTaf(icao, t)

\* A catch block without the fallback: the failure goes to the caller.
CatchPrimaryError_NoFallback(product, icao, kind, d, t) ==
    [pc |-> "rejected", value |-> [error |-> "Unable to fetch"]]

\* A catch block that lets a timeout through to the caller.
CatchPrimaryError_RethrowTimeout(product, icao, kind, d, t) ==
    IF kind = "timeout"
    THEN [pc |-> "rejected", value |-> [error |-> "timeout exceeded"]]
    ELSE [pc |-> "done", value |-> generateMock(product, toUpperCase(icao), d, t)]

\* The catch (primaryError) block of getLatestMetar / getLatestTaf: the mock
\* record is returned; it is not written to the cache.
CatchPrimaryError(product, icao, kind, d, t) ==
    [pc |-> "done", value |-> generateMock(product, toUpperCase(icao), d, t)]

\* ------------------------------------------------------------------- state
\* Every call of getLatestMetar / getLatestTaf is one async invocation; the
\* invocations are numbered in the order in which they are made.
VARIABLES
    cache,      \* the module-level Map: cache key -> [data, timestamp]
    now,        \* Date.now()
    ticks,      \* clock steps taken
    pc,         \* per call: idle (not made yet), awaiting (the primary request), done, rejected
    args,       \* per call: its product and its icao
    sentAt,     \* per call: when its pending primary request was issued
    attempts,   \* per call: primary requests it has issued
    outcome,    \* per call: how it went (none, invalid, hit, or the response kind)
    result,     \* per call: the value its promise settled with
    req,        \* the request a flight-plan handler is serving
    hpc,        \* the handler's position: idle, loop, awaiting, responded
    items,      \* weatherBySegment / waypointWeather built so far
    alerts,     \* briefing.alerts built so far
    pending,    \* weather fetches issued by the handler and not yet resolved
    resp,       \* responses sent on res, in order
    fnIn,       \* the argument of a pure function under examination
    fnOut,      \* what the function returned for it
    fetches,    \* weather lookups the handler has started
    form        \* FlightForm: per input field its value, lookup state, airport
                \* info, debounce timer and lookups in flight

fetchVars == <<cache, now, ticks, pc, args, sentAt, attempts, outcome, result>>
routeVars == <<req, hpc, items, alerts, pending, resp, fetches>>
fnVars == <<fnIn, fnOut>>
formVars == <<form>>
vars == <<fetchVars, routeVars, fnVars, formVars>>

NoArgs == [product |-> "none", icao |-> EmptyIcao]
NoResult == [none |-> TRUE]
EmptyCache == [k \in {} |-> NoResult]

\* No request is being served by a flight-plan handler.
RouteIdle ==
    /\ req = NoResult
    /\ hpc = "idle"
    /\ items = <<>>
    /\ alerts = <<>>
    /\ pending = 0
    /\ resp = <<>>
    /\ fetches = 0

\* FlightForm as mounted: both fields empty, nothing looked up.
Fields == {"origin", "destination"}
NoInfo == [null |-> TRUE]
NoTimer == [set |-> FALSE, icao |-> EmptyIcao]
BlankField == [value |-> EmptyIcao, lookup |-> "idle", info |-> NoInfo,
               timer |-> NoTimer, inflight |-> {}]
FormIdle == form = [f \in Fields |-> BlankField]

\* No pure function is under examination.
FnIdle ==
    /\ fnIn = NoResult
    /\ fnOut = NoResult

\* The fetcher module as loaded: an empty cache and no call made.
FetchIdle ==
    /\ cache = EmptyCache
    /\ now = 0
    /\ ticks = 0
    /\ pc = [c \in Calls |-> "idle"]
    /\ args = [c \in Calls |-> NoArgs]
    /\ sentAt = [c \in Calls |-> 0]
    /\ attempts = [c \in Calls |-> 0]
    /\ outcome = [c \in Calls |-> "none"]
    /\ result = [c \in Calls |-> NoResult]

Init ==
    /\ RouteIdle
    /\ FormIdle
    /\ FnIdle
    /\ cache = EmptyCache
    /\ now = 0
    /\ ticks = 0
    /\ pc = [c \in Calls |-> "idle"]
    /\ args = [c \in Calls |-> NoArgs]
    /\ sentAt = [c \in Calls |-> 0]
    /\ attempts = [c \in Calls |-> 0]
    /\ outcome = [c \in Calls |-> "none"]
    /\ result = [c \in Calls |-> NoResult]

\* The argument check left out.
IcaoMissing_Never(icao) == FALSE

\* if (!icao): the station id is undefined or the empty string.
IcaoMissing(icao) == icao = EmptyIcao

\* getLatestMetar / getLatestTaf from the call to the first await: the
\* argument check, the cache lookup, and on a miss the primary request.
Call(c, product, icao) ==
    /\ pc[c] = "idle"
    /\ \A b \in Calls : b < c => pc[b] # "idle"
    /\ args' = [args EXCEPT ![c] = [product |-> product, icao |-> icao]]
    /\ IF IcaoMissing(icao)
       THEN /\ pc' = [pc EXCEPT ![c] = "rejected"]
            /\ outcome' = [outcome EXCEPT ![c] = "invalid"]
            /\ result' = [result EXCEPT ![c] = [error |-> "ICAO code is required"]]
            /\ UNCHANGED <<sentAt, attempts>>
       ELSE IF CacheHit(cache, product, CacheKey(product, icao), now)
       THEN /\ pc' = [pc EXCEPT ![c] = "done"]
            /\ outcome' = [outcome EXCEPT ![c] = "hit"]
            /\ result' = [result EXCEPT ![c] = cache[CacheKey(product, icao)].data]
            /\ UNCHANGED <<sentAt, attempts>>
       ELSE /\ pc' = [pc EXCEPT ![c] = "awaiting"]
            /\ sentAt' = [sentAt EXCEPT ![c] = now]
            /\ attempts' = [attempts EXCEPT ![c] = attempts[c] + 1]
            /\ UNCHANGED <<outcome, result>>
    /\ UNCHANGED <<cache, now, ticks>>
    /\ UNCHANGED <<routeVars, fnVars, formVars>>

\* The primary request of call c settles (a response before the timeout, or
\* the timeout) and the rest of getLatestMetar / getLatestTaf runs.
Settle(c, kind, v, d) ==
    /\ pc[c] = "awaiting"
    /\ IF kind = "timeout"
       THEN now - sentAt[c] >= REQUEST_TIMEOUT
       ELSE now - sentAt[c] < REQUEST_TIMEOUT
    /\ LET product == args[c].product
           icao == args[c].icao
           fetched == fetchFromPrimary(product, toUpperCase(icao),
                          Response(product, toUpperCase(icao), kind, v))
           caught == CatchPrimaryError(product, icao, kind, d, now)
       IN  IF fetched.ok
           THEN /\ cache' = CacheSet(cache, CacheKey(product, icao), fetched.value, now)
                /\ pc' = [pc EXCEPT ![c] = "done"]
                /\ result' = [result EXCEPT ![c] = fetched.value]
           ELSE /\ cache' = cache
                /\ pc' = [pc EXCEPT ![c] = caught.pc]
                /\ result' = [result EXCEPT ![c] = caught.value]
    /\ outcome' = [outcome EXCEPT ![c] = kind]
    /\ sentAt' = [sentAt EXCEPT ![c] = 0]
    /\ UNCHANGED <<now, ticks, args, attempts>>
    /\ UNCHANGED <<routeVars, fnVars, formVars>>

\* Time passes.
Tick ==
    /\ ticks < MaxTicks
    /\ ticks' = ticks + 1
    /\ now' = now + TickStep
    /\ UNCHANGED <<cache, pc, args, sentAt, attempts, outcome, result>>
    /\ UNCHANGED <<routeVars, fnVars, formVars>>

Next ==
    \/ \E c \in Calls, product \in Products, icao \in IcaoInputs : Call(c, product, icao)
    \/ \E c \in Calls, kind \in ResponseKinds, v \in 1 .. MaxPayload, d \in MetarDraws :
          Settle(c, kind, v, d)
    \/ Tick

Spec == Init /\ [][Next]_vars

\* ------------------------------------------------------------------ claims
Failures == {"error", "empty", "timeout"}
RealIcaos == IcaoInputs \ {EmptyIcao}

\* The product a record belongs to, read off its fields.
ProductOf(rec) == IF "issueTime" \in DOMAIN rec THEN "taf" ELSE "metar"

\* Call c has settled with a record of the mock generators.
IsSynthetic(c) == pc[c] = "done" /\ result[c].source = "mock"

\* When the record call c settled with was generated.
GeneratedAt(c) ==
    IF ProductOf(result[c]) = "taf" THEN result[c].issueTime
    ELSE result[c].observationTime

\* Calls a and b ask for the same product of the same station.
SameRequest(a, b) ==
    /\ args[a].product = args[b].product
    /\ toUpperCase(args[a].icao) = toUpperCase(args[b].icao)

\* The cache holds an entry for key k that is younger than CACHE_DURATION at time t.
LiveAt(c, k, t) == k \in DOMAIN c /\ t - c[k].timestamp < CACHE_DURATION

\* Call c is made in this step, for product p and station i.
Made(c, p, i) ==
    pc[c] = "idle" /\ pc'[c] # "idle" /\ args'[c] = [product |-> p, icao |-> i]

\* C1: single-flight. No two calls for the same (station, product) have each a
\* primary request pending at the same time: the second call reuses the first
\* call's request.
C1_SingleFlight ==
    \A a, b \in Calls :
        (a # b /\ pc[a] = "awaiting" /\ pc[b] = "awaiting") => ~SameRequest(a, b)

\* C2: for a non-empty station id, a call whose live source failed (error,
\* empty response or timeout) has resolved with a record of the mock
\* generator for that station, tagged source 'mock'; only a call without a
\* station id is rejected.
C2_SyntheticWhenSourcesFail ==
    \A c \in Calls :
        /\ (outcome[c] \in Failures) =>
              /\ pc[c] = "done"
              /\ result[c].source = "mock"
              /\ result[c].station = toUpperCase(args[c].icao)
              /\ ProductOf(result[c]) = args[c].product
        /\ pc[c] = "rejected" => args[c].icao = EmptyIcao

C2_Witness ==
    \E a, b \in Calls :
        /\ outcome[a] = "error" /\ outcome[b] = "empty"
        /\ IsSynthetic(a) /\ IsSynthetic(b)
        /\ args[a].product = "metar" /\ args[b].product = "taf"

\* C3: a call that finds an entry for its (station, product) younger than the
\* TTL resolves with that entry's data, issues no primary request and leaves
\* the cache as it was.
C3_CacheHitServesEntry ==
    [][\A c \in Calls, p \in Products, i \in RealIcaos :
          (Made(c, p, i) /\ LiveAt(cache, CacheKey(p, i), now)) =>
              /\ pc'[c] = "done"
              /\ result'[c] = cache[CacheKey(p, i)].data
              /\ attempts'[c] = 0
              /\ \A b \in Calls : pc'[b] = "awaiting" => pc[b] = "awaiting"
              /\ cache' = cache]_vars

C3_Witness ==
    \E c \in Calls :
        /\ pc[c] = "done" /\ outcome[c] = "hit" /\ attempts[c] = 0
        /\ LiveAt(cache, CacheKey(args[c].product, args[c].icao), now)
        /\ result[c] = cache[CacheKey(args[c].product, args[c].icao)].data

\* C4: whenever a fetch resolves after asking the live source, the record it
\* returns, from the primary source or from the mock generator, is in the
\* cache as a live entry for its key.
C4_FetchedRecordIsCached ==
    [][\A c \in Calls :
          (pc[c] = "awaiting" /\ pc'[c] = "done") =>
              LET k == CacheKey(args[c].product, args[c].icao)
              IN  /\ LiveAt(cache', k, now')
                  /\ cache'[k].data = result'[c]]_vars

C6_PrimaryRetried ==
    \A c \in Calls : IsSynthetic(c) => attempts[c] = RETRY_ATTEMPTS

\* C7: a primary request that ran into its timeout counts as a failed source:
\* the call has resolved with a record for its station and product, not with
\* an error.
C7_TimeoutFallsBack ==
    \A c \in Calls :
        outcome[c] = "timeout" =>
            /\ now >= REQUEST_TIMEOUT
            /\ pc[c] = "done"
            /\ "raw" \in DOMAIN result[c]
            /\ result[c].raw.station = toUpperCase(args[c].icao)
            /\ ProductOf(result[c]) = args[c].product

C7_Witness ==
    \E c \in Calls :
        /\ outcome[c] = "timeout" /\ pc[c] = "done"
        /\ "raw" \in DOMAIN result[c]
        /\ GeneratedAt(c) >= REQUEST_TIMEOUT

\* C8: a call that resolves without asking the live source returns an entry
\* stored less than the TTL ago; a call that finds an entry of age >= TTL asks
\* the primary source; and when that request fails the call does not fall
\* back to the expired entry.
C8_ExpiredNeverServed ==
    [][/\ \A c \in Calls, p \in Products, i \in RealIcaos :
            LET k == CacheKey(p, i)
            IN  Made(c, p, i) =>
                  /\ pc'[c] = "done" =>
                        /\ k \in DOMAIN cache
                        /\ now - cache[k].timestamp < CACHE_DURATION
                        /\ result'[c] = cache[k].data
                  /\ (k \in DOMAIN cache /\ now - cache[k].timestamp >= CACHE_DURATION) =>
                        /\ pc'[c] = "awaiting"
                        /\ attempts'[c] = 1
       /\ \A c \in Calls :
            LET k == CacheKey(args[c].product, args[c].icao)
            IN  (/\ pc[c] = "awaiting" /\ pc'[c] # "awaiting"
                 /\ outcome'[c] \in Failures
                 /\ k \in DOMAIN cache
                 /\ now - cache[k].timestamp >= CACHE_DURATION)
                => result'[c] # cache[k].data]_vars

C8_Witness ==
    \E c \in Calls :
        LET k == CacheKey(args[c].product, args[c].icao)
        IN  /\ pc[c] = "done" /\ outcome[c] = "error"
            /\ GeneratedAt(c) = now
            /\ k \in DOMAIN cache
            /\ now - cache[k].timestamp >= CACHE_DURATION

\* C9: the lifetime applied to forecast entries is strictly longer than the
\* one applied to observation entries.
\* A forecast entry therefore outlives an observation entry: a forecast call
\* that finds an entry exactly as old as the observation lifetime is still
\* served from the cache.
C9_ForecastTtlLonger ==
    [][\A c \in Calls, i \in RealIcaos :
          LET k == CacheKey("taf", i)
          IN  (/\ Made(c, "taf", i)
               /\ k \in DOMAIN cache
               /\ now - cache[k].timestamp <= CacheTtl("metar"))
              => (pc'[c] = "done" /\ result'[c] = cache[k].data)]_vars

\* C10: the cache is keyed by (station, product). A record served from the
\* cache is of the product and of the station asked for; the cache holds at
\* most one entry per product and station; and a call is served from a live
\* entry of its product and station however the station id is cased.
C10_KeyedByStationAndProduct ==
    [][/\ \A c \in Calls :
            (pc'[c] = "done" /\ outcome'[c] = "hit") =>
                /\ ProductOf(result'[c]) = args'[c].product
                /\ result'[c].station = toUpperCase(args'[c].icao)
       /\ \A k1, k2 \in DOMAIN cache' :
            (/\ ProductOf(cache'[k1].data) = ProductOf(cache'[k2].data)
             /\ cache'[k1].data.station = cache'[k2].data.station)
            => k1 = k2
       /\ \A c \in Calls, p \in Products, i \in RealIcaos :
            (/\ Made(c, p, i)
             /\ \E k \in DOMAIN cache :
                   /\ ProductOf(cache[k].data) = p
                   /\ cache[k].data.station = toUpperCase(i)
                   /\ now - cache[k].timestamp < CACHE_DURATION)
            => (pc'[c] = "done" /\ outcome'[c] = "hit")]_vars

C10_Witness ==
    \E a, b \in Calls :
        /\ args[a].icao = KJFK /\ args[b].icao = kjfk
        /\ args[a].product = args[b].product
        /\ outcome[a] = "ok" /\ outcome[b] = "hit"
        /\ pc[a] = "done" /\ pc[b] = "done"
        /\ result[a] = result[b]

\* ------------------------------------------------------ flight-plan handlers
\* controllers/flightPlanController.js: one request served by generate or by
\* getRouteBriefing, with the weather lookups of utils/apiFetcher.js behind it.
MaxWaypoints == 3

KSFO == <<"K", "S", "F", "O">>
MOCK == <<"M", "O", "C", "K">>
NoIcao == EmptyIcao

Severities == {"CLEAR", "SIGNIFICANT", "SEVERE"}
SeverityRank(s) == CASE s = "SEVERE" -> 2 [] s = "SIGNIFICANT" -> 1 [] OTHER -> 0
MaxSeverity(a, b) == IF SeverityRank(a) >= SeverityRank(b) THEN a ELSE b

\* What a report says, as far as classification looks at it: a severe
\* phenomenon, wind or gusts over the limits, a significant phenomenon, a
\* ceiling or visibility under the limits.
ClearObs == [severeWx |-> FALSE, strongWind |-> FALSE, significantWx |-> FALSE, lowCeilVis |-> FALSE]
LowObs == [severeWx |-> FALSE, strongWind |-> FALSE, significantWx |-> FALSE, lowCeilVis |-> TRUE]
StormObs == [severeWx |-> TRUE, strongWind |-> FALSE, significantWx |-> TRUE, lowCeilVis |-> TRUE]
ObsSamples == {ClearObs, LowObs, StormObs}
RouteObs == {ClearObs, StormObs}

\* severityClassifier.classifyWaypoint: the ordered rules of the classifier.
classifyWaypoint(weather) ==
    IF weather.obs.severeWx THEN "SEVERE"
    ELSE IF weather.obs.strongWind THEN "SEVERE"
    ELSE IF weather.obs.significantWx THEN "SIGNIFICANT"
    ELSE IF weather.obs.lowCeilVis THEN "SIGNIFICANT"
    ELSE "CLEAR"

\* severityClassifier.classifySegment: the higher of the two endpoints'
\* severities, read off the waypoints it is handed.
classifySegment(fromPoint, toPoint) == MaxSeverity(fromPoint.severity, toPoint.severity)

RECURSIVE MaxOver(_)
MaxOver(list) ==
    IF list = <<>> THEN "CLEAR"
    ELSE MaxSeverity(Head(list).severity, MaxOver(Tail(list)))

\* severityClassifier.getRouteSeverity / getOverallSeverity: the highest
\* severity in the list, CLEAR for an empty one.
getRouteSeverity(weatherBySegment) == MaxOver(weatherBySegment)
getOverallSeverity(waypointWeather) == MaxOver(waypointWeather)

\* findNearestAirport's table, in the order Object.entries walks it.
majorAirports == <<KJFK, KLAX, KORD, KATL, KDEN, KSFO>>
NearestRadius == 200
Infinity == 1000000

\* calculateDistance to each major airport, in nautical miles rounded up,
\* for the coordinates used here (the sample places and their midpoints).
DistanceTable ==
    <<0, -74>> :> <<2441, 3222, 2631, 2104, 2923, 3498>> @@
    <<17, -96>> :> <<1828, 1578, 1557, 1178, 1445, 1862>> @@
    <<20, -74>> :> <<1240, 2498, 1497, 990, 1976, 2721>> @@
    <<20, -57>> :> <<1508, 3343, 2047, 1675, 2713, 3527>> @@
    <<22, -74>> :> <<1120, 2441, 1389, 891, 1894, 2656>> @@
    <<34, -118>> :> <<2126, 21, 1494, 1668, 729, 305>> @@
    <<37, -96>> :> <<1060, 1109, 480, 602, 443, 1257>> @@
    <<37, -79>> :> <<328, 1922, 509, 334, 1216, 2053>> @@
    <<39, -96>> :> <<1027, 1121, 411, 646, 406, 1242>> @@
    <<40, -74>> :> <<40, 2139, 641, 630, 1406, 2240>> @@
    <<40, -57>> :> <<768, 2910, 1399, 1367, 2168, 2992>> @@
    <<40, -40>> :> <<1538, 3656, 2146, 2147, 2908, 3710>> @@
    <<42, -74>> :> <<83, 2132, 620, 704, 1390, 2217>> @@
    <<42, -57>> :> <<760, 2885, 1372, 1387, 2139, 2953>> @@
    <<44, -74>> :> <<202, 2132, 622, 790, 1385, 2200>>
calculateDistance(lat, lon, k) == DistanceTable[<<lat, lon>>][k]

RECURSIVE NearestFrom(_, _, _, _, _)
NearestFrom(lat, lon, k, nearestAirport, minDistance) ==
    IF k > Len(majorAirports) THEN [nearestAirport |-> nearestAirport, minDistance |-> minDistance]
    ELSE LET distance == calculateDistance(lat, lon, k)
         IN  IF distance < minDistance
             THEN NearestFrom(lat, lon, k + 1, majorAirports[k], distance)
             ELSE NearestFrom(lat, lon, k + 1, nearestAirport, minDistance)

WithinRadius_Always(minDistance) == TRUE
WithinRadius(minDistance) == minDistance <= NearestRadius

\* findNearestAirport: NoIcao stands for null.
findNearestAirport(lat, lon) ==
    LET n == NearestFrom(lat, lon, 1, NoIcao, Infinity)
    IN  IF WithinRadius(n.minDistance) THEN n.nearestAirport ELSE NoIcao

\* The record getLatestMetar resolves with for a station, its report saying o.
StationWeather(icao, o) == [station |-> toUpperCase(icao), source |-> "station", obs |-> o]

\* generateMockWeatherForCoordinates: a made-up report for the coordinates
\* (few to broken cloud at 2500 ft, 5 to 10 miles, wind up to 20 knots).
generateMockWeatherForCoordinates(lat, lon) ==
    [station |-> MOCK, source |-> "generated",
     coordinates |-> [lat |-> lat, lon |-> lon], obs |-> ClearObs]

getWeatherForCoordinates(lat, lon, o) ==
    LET nearestIcao == findNearestAirport(lat, lon)
    IN  IF nearestIcao # NoIcao
        THEN StationWeather(nearestIcao, o)
        ELSE generateMockWeatherForCoordinates(lat, lon)

NoWeather == [none |-> TRUE]

\* One end of getWeatherAlongRoute: by station id when the point has one,
\* else by coordinates when it has both, else left null.
PointWeather(point, o) ==
    IF point.icao # NoIcao THEN StationWeather(point.icao, o)
    ELSE IF point.lat # 0 /\ point.lon # 0 THEN getWeatherForCoordinates(point.lat, point.lon, o)
    ELSE NoWeather

getWeatherAlongRoute(fromPoint, toPoint, od, oa, oe) ==
    LET midPoint == [lat |-> (fromPoint.lat + toPoint.lat) \div 2,
                     lon |-> (fromPoint.lon + toPoint.lon) \div 2]
    IN  [departure |-> PointWeather(fromPoint, od),
         enroute |-> << [location |-> "Enroute", coordinates |-> midPoint,
                         weather |-> getWeatherForCoordinates(midPoint.lat, midPoint.lon, oe)] >>,
         arrival |-> PointWeather(toPoint, oa)]

\* Sample waypoints a client posts to getRouteBriefing: the waypoints of an
\* earlier plan, each with the severity it was given.
Wp(name, icao, lat, lon, severity) ==
    [name |-> name, icao |-> icao, lat |-> lat, lon |-> lon, severity |-> severity]
WaypointPool ==
    { Wp("JFK", KJFK, 40, -74, "CLEAR"),
      Wp("JFK", KJFK, 40, -74, "SEVERE"),
      Wp("ADK", NoIcao, 44, -74, "SIGNIFICANT"),
      Wp("ATLANTIC", NoIcao, 40, -40, "SEVERE"),
      Wp("LA", NoIcao, 34, -118, "CLEAR"),
      Wp("EQUATOR", NoIcao, 0, -74, "CLEAR") }

\* A null entry in the posted array.
NullPoint == [null |-> TRUE]

RECURSIVE SeqsUpTo(_, _)
SeqsUpTo(S, n) ==
    IF n = 0 THEN { <<>> }
    ELSE LET shorter == SeqsUpTo(S, n - 1)
         IN  shorter \cup { Append(s, x) : s \in shorter, x \in S }

Routes == SeqsUpTo(WaypointPool, MaxWaypoints)
NullRoutes == { Append(r, NullPoint) : r \in SeqsUpTo(WaypointPool, MaxWaypoints - 1) \ { <<>> } }

\* waypointGenerator.generateWaypoints: some ordered list of coordinate
\* waypoints for the plan.
Fix(name, lat, lon) == [name |-> name, lat |-> lat, lon |-> lon]
FixPool == { Fix("JFK", 40, -74), Fix("ADK", 44, -74), Fix("ATLANTIC", 40, -40), Fix("LA", 34, -118) }
generateWaypoints == SeqsUpTo(FixPool, MaxWaypoints) \ { <<>> }
Airfields == {"", "KJFK", "KLAX"}

\* generateRouteSummary
generateRouteSummary_SignificantFirst(weatherSegments) ==
    LET severeCount == Cardinality({k \in DOMAIN weatherSegments : weatherSegments[k].severity = "SEVERE"})
        significantCount == Cardinality({k \in DOMAIN weatherSegments : weatherSegments[k].severity = "SIGNIFICANT"})
    IN  IF significantCount > 0
        THEN "Route has " \o ToString(significantCount) \o " significant weather segment(s). Monitor conditions closely."
        ELSE IF severeCount > 0
        THEN "Route has " \o ToString(severeCount) \o " severe weather segment(s). Recommend alternate routing or delay."
        ELSE "Route conditions are generally favorable for flight."

generateRouteSummary(weatherSegments) ==
    LET severeCount == Cardinality({k \in DOMAIN weatherSegments : weatherSegments[k].severity = "SEVERE"})
        significantCount == Cardinality({k \in DOMAIN weatherSegments : weatherSegments[k].severity = "SIGNIFICANT"})
    IN  IF severeCount > 0
        THEN "Route has " \o ToString(severeCount) \o " severe weather segment(s). Recommend alternate routing or delay."
        ELSE IF significantCount > 0
        THEN "Route has " \o ToString(significantCount) \o " significant weather segment(s). Monitor conditions closely."
        ELSE "Route conditions are generally favorable for flight."

\* The loop conditions of the two handlers (i counts from 0).
LoopContinues_Early(i, n) == i < n - 2
LoopContinues(i, n) == i < n - 1
MoreWaypoints(i, n) == i < n

\* The alert getRouteBriefing pushes for a segment, if any.
SegmentAlert(segmentWeather) ==
    IF segmentWeather.severity = "SEVERE"
    THEN << [type |-> "SEVERE_WEATHER",
             segment |-> segmentWeather.from.name \o " to " \o segmentWeather.to.name,
             message |-> "Severe weather conditions detected along this segment"] >>
    ELSE <<>>

\* The body getRouteBriefing sends once its loop is over.
BriefingBody(weatherBySegment, alertList) ==
    [status |-> 200,
     success |-> TRUE,
     briefing |-> [summary |-> generateRouteSummary(weatherBySegment),
                   alerts |-> alertList,
                   weatherBySegment |-> weatherBySegment,
                   overallSeverity |-> getRouteSeverity(weatherBySegment)]]

\* The body generate sends once its loop is over.
FlightPlanBody(request, waypointWeather) ==
    [status |-> 200,
     success |-> TRUE,
     flightPlan |-> [origin |-> request.origin,
                     destination |-> request.destination,
                     waypoints |-> waypointWeather,
                     overallSeverity |-> getOverallSeverity(waypointWeather)]]

BadRequest(message) == [status |-> 400, error |-> message]
ServerError(message) == [status |-> 500, error |-> message]

\* A handler that never answers.
Send_Silent(responses, body) == responses

\* res.json / res.status(...).json: one response goes out.
Send(responses, body) == Append(responses, body)

\* A segment whose ends are exchanged.
Segment_Reversed(waypoints, i, conditions) ==
    [from |-> waypoints[i + 2],
     to |-> waypoints[i + 1],
     conditions |-> conditions,
     severity |-> classifySegment(waypoints[i + 1], waypoints[i + 2])]

\* segmentWeather for the i-th pair of waypoints (i counts from 0).
Segment(waypoints, i, conditions) ==
    [from |-> waypoints[i + 1],
     to |-> waypoints[i + 2],
     conditions |-> conditions,
     severity |-> classifySegment(waypoints[i + 1], waypoints[i + 2])]

\* analyzeSafety: the risk factor and the score a waypoint adds.
RiskFactors(waypoint) ==
    IF waypoint.severity = "SEVERE"
    THEN << [location |-> waypoint.name, type |-> "SEVERE_WEATHER",
             description |-> "Severe weather conditions at " \o waypoint.name,
             mitigation |-> "Consider alternate routing or weather delay"] >>
    ELSE IF waypoint.severity = "SIGNIFICANT"
    THEN << [location |-> waypoint.name, type |-> "SIGNIFICANT_WEATHER",
             description |-> "Significant weather conditions at " \o waypoint.name,
             mitigation |-> "Monitor conditions closely, prepare for possible deviations"] >>
    ELSE <<>>
RiskScore(waypoint) ==
    IF waypoint.severity = "SEVERE" THEN 10
    ELSE IF waypoint.severity = "SIGNIFICANT" THEN 5
    ELSE 0

RECURSIVE AllRiskFactors(_)
AllRiskFactors(waypoints) ==
    IF waypoints = <<>> THEN <<>>
    ELSE RiskFactors(Head(waypoints)) \o AllRiskFactors(Tail(waypoints))
RECURSIVE TotalRiskScore(_)
TotalRiskScore(waypoints) ==
    IF waypoints = <<>> THEN 0
    ELSE RiskScore(Head(waypoints)) + TotalRiskScore(Tail(waypoints))

\* avgRisk > 8 ? 'HIGH' : avgRisk > 4 ? 'MEDIUM' : 'LOW', with avgRisk =
\* totalRiskScore / n; for n = 0 avgRisk is NaN and both comparisons fail.
OverallRisk(totalRiskScore, n) ==
    IF totalRiskScore > 8 * n THEN "HIGH"
    ELSE IF totalRiskScore > 4 * n THEN "MEDIUM"
    ELSE "LOW"

Recommendations(overallRisk) ==
    IF overallRisk = "HIGH"
    THEN <<"Consider delaying flight until conditions improve",
           "File alternate flight plan with weather avoidance">>
    ELSE IF overallRisk = "MEDIUM"
    THEN <<"Monitor weather conditions closely during flight",
           "Have alternate airports identified along route">>
    ELSE <<>>

\* The body analyzeSafety sends.
AnalysisBody(waypoints) ==
    LET totalRiskScore == TotalRiskScore(waypoints)
        overallRisk == OverallRisk(totalRiskScore, Len(waypoints))
    IN  [status |-> 200,
         success |-> TRUE,
         analysis |-> [overallRisk |-> overallRisk,
                       riskFactors |-> AllRiskFactors(waypoints),
                       recommendations |-> Recommendations(overallRisk),
                       alternateRoutes |-> <<>>,
                       safetyScore |-> IF 100 - totalRiskScore > 0 THEN 100 - totalRiskScore ELSE 0]]

\* The body the test endpoint sends.
TestPlanBody(origin, destination) ==
    [status |-> 200,
     success |-> TRUE,
     flightPlan |-> [origin |-> origin,
                     destination |-> destination,
                     waypoints |-> << [name |-> origin, type |-> "departure"],
                                      [name |-> "MIDPOINT", type |-> "waypoint"],
                                      [name |-> destination, type |-> "arrival"] >>]]

\* getRouteBriefing up to its first await: the argument check, and for a
\* list without a segment the whole handler.
Brief(isArray, waypoints) ==
    /\ hpc = "idle"
    /\ req' = [handler |-> "getRouteBriefing", isArray |-> isArray,
               waypoints |-> IF isArray THEN waypoints ELSE <<>>]
    /\ IF ~isArray
       THEN /\ resp' = Send(resp, BadRequest("Waypoints array is required"))
            /\ hpc' = "responded"
            /\ pending' = 0
            /\ fetches' = fetches
       ELSE IF LoopContinues(0, Len(waypoints))
       THEN /\ hpc' = "awaiting"
            /\ pending' = 1
            /\ fetches' = fetches + 1
            /\ resp' = resp
       ELSE /\ resp' = Send(resp, BriefingBody(<<>>, <<>>))
            /\ hpc' = "responded"
            /\ pending' = 0
            /\ fetches' = fetches
    /\ UNCHANGED <<items, alerts>>
    /\ UNCHANGED <<fetchVars, fnVars, formVars>>

\* getWeatherAlongRoute settles for the segment in hand; getRouteBriefing
\* runs on to its next await or to its response. With a null end the lookup
\* rejects (reading a property of null throws in its try block and again in
\* its catch block) and the handler's catch block answers.
BriefResolve(od, oa, oe) ==
    /\ hpc = "awaiting"
    /\ req.handler = "getRouteBriefing"
    /\ LET i == Len(items)
           fromPoint == req.waypoints[i + 1]
           toPoint == req.waypoints[i + 2]
       IN  IF fromPoint = NullPoint \/ toPoint = NullPoint
           THEN /\ pending' = pending - 1
                /\ resp' = Send(resp, ServerError("Failed to generate route briefing"))
                /\ hpc' = "responded"
                /\ UNCHANGED <<items, alerts, fetches>>
           ELSE LET segmentWeather ==
                        Segment(req.waypoints, i,
                                getWeatherAlongRoute(fromPoint, toPoint, od, oa, oe))
                    weatherBySegment == Append(items, segmentWeather)
                    alertList == alerts \o SegmentAlert(segmentWeather)
                IN  /\ items' = weatherBySegment
                    /\ alerts' = alertList
                    /\ IF LoopContinues(i + 1, Len(req.waypoints))
                       THEN /\ pending' = pending - 1 + 1
                            /\ fetches' = fetches + 1
                            /\ UNCHANGED <<hpc, resp>>
                       ELSE /\ pending' = pending - 1
                            /\ fetches' = fetches
                            /\ resp' = Send(resp, BriefingBody(weatherBySegment, alertList))
                            /\ hpc' = "responded"
    /\ UNCHANGED req
    /\ UNCHANGED <<fetchVars, fnVars, formVars>>

\* generate up to its first await; throws says that the waypoint generator
\* threw.
Generate(origin, destination, waypoints, throws) ==
    /\ hpc = "idle"
    /\ IF origin = "" \/ destination = ""
       THEN /\ req' = [handler |-> "generate", origin |-> origin, destination |-> destination,
                       waypoints |-> <<>>, throws |-> FALSE]
            /\ resp' = Send(resp, BadRequest("Missing required parameters"))
            /\ hpc' = "responded"
            /\ pending' = 0
            /\ fetches' = fetches
       ELSE IF throws
       THEN /\ req' = [handler |-> "generate", origin |-> origin, destination |-> destination,
                       waypoints |-> <<>>, throws |-> TRUE]
            /\ resp' = Send(resp, ServerError("Failed to generate flight plan"))
            /\ hpc' = "responded"
            /\ pending' = 0
            /\ fetches' = fetches
       ELSE /\ req' = [handler |-> "generate", origin |-> origin, destination |-> destination,
                       waypoints |-> waypoints, throws |-> FALSE]
            /\ MoreWaypoints(0, Len(waypoints))
            /\ hpc' = "awaiting"
            /\ pending' = 1
            /\ fetches' = fetches + 1
            /\ resp' = resp
    /\ UNCHANGED <<items, alerts>>
    /\ UNCHANGED <<fetchVars, fnVars, formVars>>

\* getWeatherForCoordinates resolves for the waypoint in hand; generate runs
\* on to its next await or to its response.
GenerateResolve(o) ==
    /\ hpc = "awaiting"
    /\ req.handler = "generate"
    /\ LET i == Len(items)
           waypoint == req.waypoints[i + 1]
           weather == getWeatherForCoordinates(waypoint.lat, waypoint.lon, o)
           severity == classifyWaypoint(weather)
           waypointWeather == Append(items, [name |-> waypoint.name, lat |-> waypoint.lat,
                                             lon |-> waypoint.lon, weather |-> weather,
                                             severity |-> severity])
       IN  /\ items' = waypointWeather
           /\ IF MoreWaypoints(i + 1, Len(req.waypoints))
              THEN /\ pending' = pending - 1 + 1
                   /\ fetches' = fetches + 1
                   /\ UNCHANGED <<hpc, resp>>
              ELSE /\ pending' = pending - 1
                   /\ fetches' = fetches
                   /\ resp' = Send(resp, FlightPlanBody(req, waypointWeather))
                   /\ hpc' = "responded"
    /\ UNCHANGED <<req, alerts>>
    /\ UNCHANGED <<fetchVars, fnVars, formVars>>

\* analyzeSafety, which awaits nothing. plan says what the body carries: no
\* flight plan, a plan without waypoints, waypoints that cannot be iterated
\* (a number), or a list.
PlanKinds == {"missing", "noWaypoints", "notIterable", "list"}
Analyze(plan, waypoints) ==
    /\ hpc = "idle"
    /\ plan # "list" => waypoints = <<>>
    /\ req' = [handler |-> "analyzeSafety", plan |-> plan, waypoints |-> waypoints]
    /\ resp' =
          IF plan \in {"missing", "noWaypoints"}
          THEN Send(resp, BadRequest("Flight plan with waypoints is required"))
          ELSE IF plan = "notIterable" \/ \E k \in DOMAIN waypoints : waypoints[k] = NullPoint
          THEN Send(resp, ServerError("Failed to analyze route safety"))
          ELSE Send(resp, AnalysisBody(waypoints))
    /\ hpc' = "responded"
    /\ UNCHANGED <<items, alerts, pending, fetches>>
    /\ UNCHANGED <<fetchVars, fnVars, formVars>>

\* The test endpoint POST /api/flightplan, which awaits nothing.
TestFlightPlan(origin, destination) ==
    /\ hpc = "idle"
    /\ req' = [handler |-> "testFlightplan", origin |-> origin, destination |-> destination]
    /\ resp' =
          IF origin = "" \/ destination = ""
          THEN Send(resp, BadRequest("Missing required parameters"))
          ELSE Send(resp, TestPlanBody(origin, destination))
    /\ hpc' = "responded"
    /\ UNCHANGED <<items, alerts, pending, fetches>>
    /\ UNCHANGED <<fetchVars, fnVars, formVars>>

RouteInit ==
    /\ FetchIdle
    /\ RouteIdle
    /\ FormIdle
    /\ FnIdle

RouteNext ==
    \/ \E isArray \in BOOLEAN, waypoints \in Routes \cup NullRoutes : Brief(isArray, waypoints)
    \/ \E od \in RouteObs, oa \in RouteObs, oe \in RouteObs : BriefResolve(od, oa, oe)
    \/ \E origin \in Airfields, destination \in Airfields, waypoints \in generateWaypoints,
          throws \in BOOLEAN :
          Generate(origin, destination, waypoints, throws)
    \/ \E o \in ObsSamples : GenerateResolve(o)
    \/ \E plan \in PlanKinds, waypoints \in Routes \cup NullRoutes : Analyze(plan, waypoints)
    \/ \E origin \in Airfields, destination \in Airfields : TestFlightPlan(origin, destination)

SpecRoute == RouteInit /\ [][RouteNext]_vars

\* ------------------------------------------------- claims: route briefing
\* The last response is a briefing / a flight plan.
Briefed ==
    /\ hpc = "responded"
    /\ req.handler = "getRouteBriefing"
    /\ resp[Len(resp)].status = 200
Planned ==
    /\ hpc = "responded"
    /\ req.handler = "generate"
    /\ resp[Len(resp)].status = 200
Briefing == resp[Len(resp)].briefing
FlightPlan == resp[Len(resp)].flightPlan

SevereWaypoints == {k \in DOMAIN req.waypoints : req.waypoints[k].severity = "SEVERE"}
SevereSegments == {k \in DOMAIN Briefing.weatherBySegment : Briefing.weatherBySegment[k].severity = "SEVERE"}
SignificantSegments ==
    {k \in DOMAIN Briefing.weatherBySegment : Briefing.weatherBySegment[k].severity = "SIGNIFICANT"}
SegmentName(k) == req.waypoints[k].name \o " to " \o req.waypoints[k + 1].name

\* An alert refers to waypoint k when it is raised for that waypoint or for a
\* segment that ends at it.
RefersToWaypoint(alert, k) ==
    \/ "waypoint" \in DOMAIN alert /\ alert.waypoint = req.waypoints[k].name
    \/ /\ "segment" \in DOMAIN alert
       /\ \/ k < Len(req.waypoints) /\ alert.segment = SegmentName(k)
          \/ k > 1 /\ alert.segment = SegmentName(k - 1)
IsSegmentAlert(alert, k) == "segment" \in DOMAIN alert /\ alert.segment = SegmentName(k)

\* C11: the overall severity of a briefing is the highest severity among all
\* its waypoints and segments, so it is SEVERE as soon as one waypoint is,
\* also on a route of a single waypoint; the same for a generated plan.
C11_OverallIsMax ==
    /\ Briefed =>
          Briefing.overallSeverity =
              MaxSeverity(MaxOver(req.waypoints), MaxOver(Briefing.weatherBySegment))
    /\ Planned => FlightPlan.overallSeverity = MaxOver(FlightPlan.waypoints)

\* C12: a briefing of a route whose only SEVERE waypoint is an interior one,
\* all others CLEAR, is SEVERE overall and carries exactly one alert, which
\* refers to that waypoint.
C12_OneAlertForSevereWaypoint ==
    Briefed =>
        \A k \in DOMAIN req.waypoints :
            ( /\ 1 < k /\ k < Len(req.waypoints)
              /\ SevereWaypoints = {k}
              /\ \A j \in DOMAIN req.waypoints \ {k} : req.waypoints[j].severity = "CLEAR" )
            => /\ Briefing.overallSeverity = "SEVERE"
               /\ Len(Briefing.alerts) = 1
               /\ RefersToWaypoint(Briefing.alerts[1], k)

\* C13: the alerts of a briefing cover every SEVERE waypoint and every SEVERE
\* segment, and every alert is for a SEVERE waypoint or segment.
C13_AlertsForSevereItems ==
    Briefed =>
        /\ \A k \in SevereWaypoints :
              \E a \in DOMAIN Briefing.alerts : RefersToWaypoint(Briefing.alerts[a], k)
        /\ \A k \in SevereSegments :
              \E a \in DOMAIN Briefing.alerts : IsSegmentAlert(Briefing.alerts[a], k)
        /\ \A a \in DOMAIN Briefing.alerts :
              \/ \E k \in SevereSegments : IsSegmentAlert(Briefing.alerts[a], k)
              \/ \E k \in SevereWaypoints : RefersToWaypoint(Briefing.alerts[a], k)

\* C14: the severity of a segment is the higher of the severities of its two
\* ends, the severity of an end being the classification of the weather
\* resolved for it.
C14_SegmentFromResolvedWeather ==
    Briefed =>
        \A k \in DOMAIN Briefing.weatherBySegment :
            LET segment == Briefing.weatherBySegment[k]
            IN  (segment.conditions.departure # NoWeather /\ segment.conditions.arrival # NoWeather) =>
                    segment.severity =
                        MaxSeverity(classifyWaypoint(segment.conditions.departure),
                                    classifyWaypoint(segment.conditions.arrival))

\* C15: the summary of a briefing is decided by the numbers of SEVERE and of
\* SIGNIFICANT segments alone: the severe sentence when the first is positive,
\* whatever the second; else the significant sentence when the second is
\* positive; else the favourable sentence.
C15_SummaryFromCounts ==
    Briefed =>
        LET severe == Cardinality(SevereSegments)
            significant == Cardinality(SignificantSegments)
        IN  /\ severe > 0 =>
                 Briefing.summary = "Route has " \o ToString(severe)
                     \o " severe weather segment(s). Recommend alternate routing or delay."
            /\ (severe = 0 /\ significant > 0) =>
                 Briefing.summary = "Route has " \o ToString(significant)
                     \o " significant weather segment(s). Monitor conditions closely."
            /\ (severe = 0 /\ significant = 0) =>
                 Briefing.summary = "Route conditions are generally favorable for flight."

\* A briefing with a SEVERE and a SIGNIFICANT segment has been sent.
C15_Witness ==
    /\ Briefed
    /\ SevereSegments # {}
    /\ SignificantSegments # {}

\* C16: a handler answers only when none of its weather lookups is
\* outstanding, and what it answers with covers every segment (every
\* waypoint) of the request, each with the weather resolved for it.
C16_FanIn ==
    /\ resp # <<>> => pending = 0
    /\ pending > 0 => hpc = "awaiting"
    /\ Briefed =>
          /\ Len(Briefing.weatherBySegment) = (IF req.waypoints = <<>> THEN 0 ELSE Len(req.waypoints) - 1)
          /\ \A k \in DOMAIN Briefing.weatherBySegment :
                /\ Briefing.weatherBySegment[k].from = req.waypoints[k]
                /\ Briefing.weatherBySegment[k].to = req.waypoints[k + 1]
                /\ "departure" \in DOMAIN Briefing.weatherBySegment[k].conditions
    /\ Planned =>
          /\ Len(FlightPlan.waypoints) = Len(req.waypoints)
          /\ \A k \in DOMAIN FlightPlan.waypoints : "weather" \in DOMAIN FlightPlan.waypoints[k]

\* A briefing over two segments has been sent.
C16_Witness ==
    /\ Briefed
    /\ Len(req.waypoints) = MaxWaypoints
    /\ Len(Briefing.weatherBySegment) = MaxWaypoints - 1

\* No major airport lies within the radius of the coordinates.
NoStationNear(lat, lon) ==
    \A k \in DOMAIN majorAirports : calculateDistance(lat, lon, k) > NearestRadius

\* C17: a waypoint given by coordinates with no station within 200 NM has its
\* weather reported as unavailable, no record being made up for it, while the
\* rest of the route is still served.
C17_NoStationUnavailable ==
    /\ Planned =>
          /\ Len(FlightPlan.waypoints) = Len(req.waypoints)
          /\ \A k \in DOMAIN FlightPlan.waypoints :
                NoStationNear(FlightPlan.waypoints[k].lat, FlightPlan.waypoints[k].lon)
                => FlightPlan.waypoints[k].weather = NoWeather
    /\ Briefed =>
          \A k \in DOMAIN Briefing.weatherBySegment :
              LET segment == Briefing.weatherBySegment[k]
              IN  /\ (segment.from.icao = NoIcao /\ NoStationNear(segment.from.lat, segment.from.lon))
                     => segment.conditions.departure = NoWeather
                  /\ (segment.to.icao = NoIcao /\ NoStationNear(segment.to.lat, segment.to.lon))
                     => segment.conditions.arrival = NoWeather

\* ------------------------------------------------------------ report texts
\* Reports are strings: sequences of characters, their groups separated by
\* single spaces.
Space == <<" ">>
Digits == {"0", "1", "2", "3", "4", "5", "6", "7", "8", "9"}
WordChars == Digits \cup {"_"} \cup {UpperLetters[i] : i \in 1 .. 26} \cup {LowerLetters[i] : i \in 1 .. 26}

RECURSIVE Join(_)
Join(tokens) ==
    IF tokens = <<>> THEN <<>>
    ELSE IF Len(tokens) = 1 THEN Head(tokens)
    ELSE Head(tokens) \o Space \o Join(Tail(tokens))

\* String.prototype.includes
includes(text, searchString) ==
    \E i \in 1 .. Len(text) - Len(searchString) + 1 :
        SubSeq(text, i, i + Len(searchString) - 1) = searchString

\* Sample groups of an observation: the text of the group and what it says
\* (visibility in statute miles, cloud base in feet).
MetarWord == <<"M", "E", "T", "A", "R">>
SampleStation == KJFK
SampleTime == <<"2", "5", "1", "6", "5", "1", "Z">>
SampleAltimeter == <<"A", "3", "0", "1", "2">>

Wind(text, plain) == [text |-> text, plain |-> plain]
SteadyWind == Wind(<<"1", "8", "0", "0", "5", "K", "T">>, TRUE)
CalmWind == Wind(<<"0", "0", "0", "0", "0", "K", "T">>, TRUE)
VariableWind == Wind(<<"V", "R", "B", "0", "5", "K", "T">>, FALSE)
GustyWind == Wind(<<"1", "8", "0", "1", "5", "G", "2", "5", "K", "T">>, FALSE)

Vis(text, miles, whole) == [text |-> text, miles |-> miles, whole |-> whole]
GoodVis == Vis(<<"1", "0", "S", "M">>, 10, TRUE)
LowVis == Vis(<<"1", "S", "M">>, 1, TRUE)
HalfMileVis == Vis(<<"1", "/", "2", "S", "M">>, 0, FALSE)

Wx(text, thunderstorm) == [text |-> text, thunderstorm |-> thunderstorm]
NoWx == Wx(<<>>, FALSE)
ThunderRain == Wx(<<"T", "S", "R", "A">>, TRUE)
HeavyThunderRain == Wx(<<"+", "T", "S", "R", "A">>, TRUE)
LightRain == Wx(<<"-", "R", "A">>, FALSE)

Sky(text, cover, base) == [text |-> text, cover |-> cover, base |-> base]
SkyClear == Sky(<<"C", "L", "R">>, "CLR", 0)
BrokenLow == Sky(<<"B", "K", "N", "0", "0", "8">>, "BKN", 800)
BrokenHigh == Sky(<<"B", "K", "N", "2", "5", "0">>, "BKN", 25000)
OvercastLow == Sky(<<"O", "V", "C", "0", "0", "4">>, "OVC", 400)
OvercastHigh == Sky(<<"O", "V", "C", "2", "5", "0">>, "OVC", 25000)

Temp(text, aboveZero) == [text |-> text, aboveZero |-> aboveZero]
WarmTemp == Temp(<<"2", "2", "/", "1", "8">>, TRUE)
FrostTemp == Temp(<<"M", "0", "2", "/", "M", "0", "5">>, FALSE)

\* An observation and the report text that says it.
Obs(present, wind, vis, wx, sky, temp) ==
    [present |-> present, wind |-> wind, vis |-> vis, wx |-> wx, sky |-> sky, temp |-> temp]
ReportText(obs) ==
    IF ~obs.present THEN <<>>
    ELSE Join(<<MetarWord, SampleStation, SampleTime, obs.wind.text, obs.vis.text>>
              \o (IF obs.wx.text = <<>> THEN <<>> ELSE <<obs.wx.text>>)
              \o <<obs.sky.text, obs.temp.text, SampleAltimeter>>)

\* --------------------------------------------------------- determineSeverity
\* frontend-react/src/App.jsx
TS == <<"T", "S">>
LightRainCode == <<"-", "R", "A">>
BKN == <<"B", "K", "N">>
SevereWord == <<"s", "e", "v", "e", "r", "e">>

determineSeverity_SignificantFirst(payload) ==
    LET depMetar == payload.origin.metar
        arrMetar == payload.destination.metar
        sigmets == payload.enroute.sigmets
    IN  IF \/ includes(depMetar, LightRainCode) \/ includes(arrMetar, LightRainCode)
           \/ includes(depMetar, BKN) \/ includes(arrMetar, BKN)
        THEN "Significant"
        ELSE IF includes(depMetar, TS) \/ includes(arrMetar, TS) \/ includes(sigmets, SevereWord)
        THEN "Severe"
        ELSE "Clear"

\* A missing report or advisory reads as the empty string.
determineSeverity(payload) ==
    LET depMetar == payload.origin.metar
        arrMetar == payload.destination.metar
        sigmets == payload.enroute.sigmets
    IN  IF includes(depMetar, TS) \/ includes(arrMetar, TS) \/ includes(sigmets, SevereWord)
        THEN "Severe"
        ELSE IF \/ includes(depMetar, LightRainCode) \/ includes(arrMetar, LightRainCode)
                \/ includes(depMetar, BKN) \/ includes(arrMetar, BKN)
        THEN "Significant"
        ELSE "Clear"

\* The briefing payloads examined: an origin report, a destination report
\* (or none) and an advisory text.
SeverityObs ==
    { Obs(TRUE, SteadyWind, vis, wx, sky, WarmTemp) :
        vis \in {GoodVis, LowVis},
        wx \in {NoWx, ThunderRain, HeavyThunderRain, LightRain},
        sky \in {SkyClear, BrokenLow, BrokenHigh, OvercastLow, OvercastHigh} }
AbsentObs == Obs(FALSE, SteadyWind, GoodVis, NoWx, SkyClear, WarmTemp)
Advisory(text, severe) == [text |-> text, severe |-> severe]
Advisories == { Advisory(<<>>, FALSE), Advisory(<<"s", "e", "v", "e", "r", "e", " ", "t", "u", "r", "b", "u", "l", "e", "n", "c", "e">>, TRUE) }
SeverityInputs ==
    [origin : SeverityObs, destination : SeverityObs \cup {AbsentObs}, sigmets : Advisories]

Payload(in) ==
    [origin |-> [metar |-> ReportText(in.origin)],
     destination |-> [metar |-> ReportText(in.destination)],
     enroute |-> [sigmets |-> in.sigmets.text]]

SeverityInit ==
    /\ FetchIdle
    /\ RouteIdle
    /\ FormIdle
    /\ fnIn \in SeverityInputs
    /\ fnOut = NoResult

ApplyDetermineSeverity ==
    /\ fnOut = NoResult
    /\ fnOut' = [returned |-> determineSeverity(Payload(fnIn))]
    /\ UNCHANGED fnIn
    /\ UNCHANGED <<fetchVars, routeVars, formVars>>

SeverityNext == ApplyDetermineSeverity

SpecSeverity == SeverityInit /\ [][SeverityNext]_vars

\* ---------------------------------------------- claims: determineSeverity
Classified == fnOut # NoResult
HasThunderstorm(obs) == obs.present /\ obs.wx.thunderstorm
SevereIndicator ==
    \/ HasThunderstorm(fnIn.origin)
    \/ HasThunderstorm(fnIn.destination)
    \/ fnIn.sigmets.severe

\* C18: a payload whose origin or destination report carries a thunderstorm
\* code (TS) is classified Severe whatever else the reports say, and a payload
\* is classified Significant only when no severe indicator matched.
C18_ThunderstormIsSevere ==
    Classified =>
        /\ (HasThunderstorm(fnIn.origin) \/ HasThunderstorm(fnIn.destination))
              => fnOut.returned = "Severe"
        /\ fnOut.returned = "Significant" => ~SevereIndicator

\* A report with a thunderstorm under a broken layer has been classified.
C18_Witness ==
    /\ Classified
    /\ HasThunderstorm(fnIn.origin)
    /\ fnIn.origin.sky.cover = "BKN"
    /\ fnOut.returned = "Severe"

\* The ceiling of a report (its broken or overcast layer) is under 1000 ft;
\* its visibility is under 3 miles.
LowCeiling(obs) == obs.present /\ obs.sky.cover \in {"BKN", "OVC"} /\ obs.sky.base < 1000
HighCeiling(obs) == obs.present /\ obs.sky.cover \in {"BKN", "OVC"} /\ obs.sky.base >= 1000
PoorVisibility(obs) == obs.present /\ obs.vis.miles < 3
NoPhenomena(obs) == obs.present => obs.wx.text = <<>>

\* C19: without a severe indicator, a report whose ceiling is under the
\* threshold or whose visibility is under the minimum makes the payload
\* Significant, and reports with a broken or overcast layer above the
\* threshold, good visibility and no phenomena make it Clear.
C19_CeilingAndVisibility ==
    (Classified /\ ~SevereIndicator) =>
        /\ ( \/ LowCeiling(fnIn.origin) \/ PoorVisibility(fnIn.origin)
             \/ LowCeiling(fnIn.destination) \/ PoorVisibility(fnIn.destination) )
              => fnOut.returned = "Significant"
        /\ ( /\ HighCeiling(fnIn.origin) /\ ~PoorVisibility(fnIn.origin) /\ NoPhenomena(fnIn.origin)
             /\ ~fnIn.destination.present \/ HighCeiling(fnIn.destination)
             /\ ~PoorVisibility(fnIn.destination) /\ NoPhenomena(fnIn.destination) )
              => fnOut.returned = "Clear"

\* ---------------------------------------------------------------- parseMetar
\* frontend-react/src/services/aviationParsers.js: one regular expression,
\* METAR\s+(\w{4})\s+(\d{6}Z)\s+(\d{3})(\d{2})KT\s+(\d+)SM\s+(.*)\s(\d{2})\/(\d{2})\sA(\d{4})
\* matched anywhere in the text.
Whitespace == {" "}
KT == <<"K", "T">>
SM == <<"S", "M">>

\* The n characters from i on are all of the class.
AllIn(text, i, n, class) ==
    /\ i + n - 1 <= Len(text)
    /\ \A j \in i .. i + n - 1 : text[j] \in class

\* The literal stands at i.
Lit(text, i, literal) ==
    /\ i + Len(literal) - 1 <= Len(text)
    /\ SubSeq(text, i, i + Len(literal) - 1) = literal

\* Where the longest run of the class starting at i ends (i itself when
\* there is none).
RECURSIVE RunEnd(_, _, _)
RunEnd(text, i, class) ==
    IF i <= Len(text) /\ text[i] \in class THEN RunEnd(text, i + 1, class) ELSE i

\* \s(\d{2})\/(\d{2})\sA(\d{4}) stands at q.
TempAltAt(text, q) ==
    /\ AllIn(text, q, 1, Whitespace)
    /\ AllIn(text, q + 1, 2, Digits)
    /\ Lit(text, q + 3, <<"/">>)
    /\ AllIn(text, q + 4, 2, Digits)
    /\ AllIn(text, q + 6, 1, Whitespace)
    /\ Lit(text, q + 7, <<"A">>)
    /\ AllIn(text, q + 8, 4, Digits)

\* A wind group that is read only when it is not all zeros.
WindGroupAt_NoCalm(text, f) ==
    /\ AllIn(text, f, 5, Digits)
    /\ Lit(text, f + 5, KT)
    /\ \E j \in f .. f + 4 : text[j] # "0"

\* (\d{3})(\d{2})KT stands at f.
WindGroupAt(text, f) ==
    /\ AllIn(text, f, 5, Digits)
    /\ Lit(text, f + 5, KT)

SetMax(S) == CHOOSE x \in S : \A y \in S : y <= x
SetMin(S) == CHOOSE x \in S : \A y \in S : x <= y

\* The expression matched with its first character at p.
MatchAt(text, p) ==
    LET a == p + Len(MetarWord)
        b == RunEnd(text, a, Whitespace)
        c == b + 4
        d == RunEnd(text, c, Whitespace)
        e == d + 7
        f == RunEnd(text, e, Whitespace)
        g == f + 7
        h == RunEnd(text, g, Whitespace)
        k == RunEnd(text, h, Digits)
        m == k + Len(SM)
        n == RunEnd(text, m, Whitespace)
        qs == {q \in m + 1 .. Len(text) : TempAltAt(text, q)}
        found ==
            /\ Lit(text, p, MetarWord)
            /\ b > a
            /\ AllIn(text, b, 4, WordChars)
            /\ d > c
            /\ AllIn(text, d, 6, Digits)
            /\ Lit(text, d + 6, <<"Z">>)
            /\ f > e
            /\ WindGroupAt(text, f)
            /\ h > g
            /\ k > h
            /\ Lit(text, k, SM)
            /\ n > m
            /\ qs # {}
    IN  IF ~found THEN [matched |-> FALSE, groups |-> <<>>]
        ELSE LET q == SetMax(qs)
             IN  [matched |-> TRUE,
                  groups |-> << SubSeq(text, b, c - 1),
                                SubSeq(text, d, e - 1),
                                SubSeq(text, f, f + 2),
                                SubSeq(text, f + 3, f + 4),
                                SubSeq(text, h, k - 1),
                                IF q >= n THEN SubSeq(text, n, q - 1) ELSE <<>>,
                                SubSeq(text, q + 1, q + 2),
                                SubSeq(text, q + 4, q + 5),
                                SubSeq(text, q + 8, q + 11) >>]

\* String.prototype.match: the leftmost match, or none.
MetarMatch(text) ==
    LET starts == {p \in 1 .. Len(text) : MatchAt(text, p).matched}
    IN  IF starts = {} THEN [matched |-> FALSE, groups |-> <<>>]
        ELSE MatchAt(text, SetMin(starts))

Null == [null |-> TRUE]
UnableToParseMetar == <<"U", "n", "a", "b", "l", "e", " ", "t", "o", " ", "p", "a", "r", "s", "e", " ", "M", "E", "T", "A", "R", ".">>

MetarSummary(match) ==
    <<"S", "t", "a", "t", "i", "o", "n", ":", " ">> \o match[1] \o <<",", " ", "T", "i", "m", "e", ":", " ">> \o match[2] \o <<",", " ", "W", "i", "n", "d", ":", " ">> \o match[3]
    \o <<"°", " ", "a", "t", " ">> \o match[4] \o <<"k", "t", ",", " ", "V", "i", "s", "i", "b", "i", "l", "i", "t", "y", ":", " ">> \o match[5] \o <<"S", "M", ",", " ", "C", "l", "o", "u", "d", "s", ":", " ">> \o match[6]
    \o <<",", " ", "T", "e", "m", "p", "/", "D", "e", "w", ":", " ">> \o match[7] \o <<"/">> \o match[8] \o <<"°", "C", ",", " ", "P", "r", "e", "s", "s", "u", "r", "e", ":", " ">> \o match[9]

parseMetar(metar) ==
    IF metar = <<>> THEN Null
    ELSE LET match == MetarMatch(metar)
         IN  IF ~match.matched
             THEN [raw |-> metar, summary |-> UnableToParseMetar]
             ELSE [raw |-> metar, summary |-> MetarSummary(match.groups)]

\* The observations handed to parseMetar: each group as the expression
\* expects it or in another form reports use.
MetarInputs ==
    { Obs(TRUE, wind, vis, wx, sky, temp) :
        wind \in {SteadyWind, CalmWind, VariableWind, GustyWind},
        vis \in {GoodVis, LowVis, HalfMileVis},
        wx \in {NoWx, LightRain},
        sky \in {SkyClear, BrokenLow},
        temp \in {WarmTemp, FrostTemp} }
    \cup {AbsentObs}

ParseInit ==
    /\ FetchIdle
    /\ RouteIdle
    /\ FormIdle
    /\ fnIn \in MetarInputs
    /\ fnOut = NoResult

ApplyParseMetar ==
    /\ fnOut = NoResult
    /\ fnOut' = [returned |-> parseMetar(ReportText(fnIn))]
    /\ UNCHANGED fnIn
    /\ UNCHANGED <<fetchVars, routeVars, formVars>>

ParseNext == ApplyParseMetar

SpecParse == ParseInit /\ [][ParseNext]_vars

\* ------------------------------------------------------ claims: parseMetar
Parsed == fnOut # NoResult

\* The groups of the observation that are not in the form the decoder reads.
FailedGroups(obs) ==
    {g \in {"wind", "vis", "temp"} :
        \/ g = "wind" /\ ~obs.wind.plain
        \/ g = "vis" /\ ~obs.vis.whole
        \/ g = "temp" /\ ~obs.temp.aboveZero}

\* The record shows the group of the observation.
Shows(record, obs, g) ==
    /\ record # Null
    /\ CASE g = "station" -> includes(record.summary, SampleStation)
         [] g = "time" -> includes(record.summary, SampleTime)
         [] g = "wind" -> includes(record.summary, SubSeq(obs.wind.text, 1, 3))
         [] g = "vis" -> includes(record.summary, obs.vis.text)
         [] g = "temp" -> includes(record.summary, obs.temp.text)
         [] OTHER -> includes(record.summary, Tail(SampleAltimeter))

\* C20: when one group of an observation fails to decode, parseMetar still
\* returns a record that shows the other groups; only the failed group is
\* missing.
C20_PartialDecoding ==
    (Parsed /\ fnIn.present /\ Cardinality(FailedGroups(fnIn)) = 1) =>
        \A g \in {"station", "time", "wind", "vis", "temp", "altimeter"} \ FailedGroups(fnIn) :
            Shows(fnOut.returned, fnIn, g)

\* An observation whose groups all have the expected form is decoded in full.
WellFormedDecoded ==
    (Parsed /\ fnIn.present /\ FailedGroups(fnIn) = {}) =>
        \A g \in {"station", "time", "wind", "vis", "temp", "altimeter"} :
            Shows(fnOut.returned, fnIn, g)

Bang == <<"!">>
RWY == <<"R", "W", "Y">>
CLSD == <<"C", "L", "S", "D">>
SideLetters == {"L", "R", "C"}

\* Where \d{2}[LRC]? standing at i ends, 0 when it does not stand there.
RunwayEnd(text, i) ==
    IF ~AllIn(text, i, 2, Digits) THEN 0
    ELSE IF AllIn(text, i + 2, 1, SideLetters) THEN i + 3
    ELSE i + 2

\* Where RWY\s(\d{2}[LRC]?\/\d{2}[LRC]?)\sCLSD\s(\d{10})-(\d{10}) standing at
\* r has its groups: the runway from r + 4 to slash and on to close - 1, the
\* two times after it.
ClosureAt(text, r) ==
    LET first == RunwayEnd(text, r + 4)
        second == IF first = 0 THEN 0 ELSE RunwayEnd(text, first + 1)
        from == second + Len(CLSD) + 2
        found ==
            /\ Lit(text, r, RWY)
            /\ AllIn(text, r + 3, 1, Whitespace)
            /\ first # 0
            /\ Lit(text, first, <<"/">>)
            /\ second # 0
            /\ AllIn(text, second, 1, Whitespace)
            /\ Lit(text, second + 1, CLSD)
            /\ AllIn(text, second + 1 + Len(CLSD), 1, Whitespace)
            /\ AllIn(text, from, 10, Digits)
            /\ Lit(text, from + 10, <<"-">>)
            /\ AllIn(text, from + 11, 10, Digits)
    IN  IF ~found THEN [matched |-> FALSE, groups |-> <<>>]
        ELSE [matched |-> TRUE,
              groups |-> << SubSeq(text, r + 4, second - 1),
                            SubSeq(text, from, from + 9),
                            SubSeq(text, from + 11, from + 20) >>]

\* The expression matched with its first character at p.
NotamMatchAt(text, p) ==
    LET w == RunEnd(text, p + 1, WordChars)
        rs == {r \in w + 1 .. Len(text) : ClosureAt(text, r).matched}
        found ==
            /\ Lit(text, p, Bang)
            /\ w - (p + 1) \in {3, 4}
            /\ AllIn(text, w, 1, Whitespace)
            /\ rs # {}
    IN  IF ~found THEN [matched |-> FALSE, groups |-> <<>>]
        ELSE [matched |-> TRUE,
              groups |-> <<SubSeq(text, p + 1, w - 1)>> \o ClosureAt(text, SetMax(rs)).groups]

NotamMatch(text) ==
    LET starts == {p \in 1 .. Len(text) : NotamMatchAt(text, p).matched}
    IN  IF starts = {} THEN [matched |-> FALSE, groups |-> <<>>]
        ELSE NotamMatchAt(text, SetMin(starts))

UnableToParseNotam == <<"U", "n", "a", "b", "l", "e", " ", "t", "o", " ", "p", "a", "r", "s", "e", " ", "N", "O", "T", "A", "M", ".">>

NotamSummary(match) ==
    <<"L", "o", "c", "a", "t", "i", "o", "n", ":", " ">> \o match[1] \o <<",", " ", "R", "u", "n", "w", "a", "y", ":", " ">> \o match[2]
    \o <<" ", "c", "l", "o", "s", "e", "d", ",", " ", "V", "a", "l", "i", "d", ":", " ">> \o match[3] \o <<" ", "t", "o", " ">> \o match[4]

parseNotam(notam) ==
    IF notam = <<>> THEN Null
    ELSE LET match == NotamMatch(notam)
         IN  IF ~match.matched
             THEN [raw |-> notam, summary |-> UnableToParseNotam]
             ELSE [raw |-> notam, summary |-> NotamSummary(match.groups)]

\* Sample notices: the location, the runway and the validity interval as the
\* expression expects them or otherwise.
Part(text, expected) == [text |-> text, expected |-> expected]
NotamLocations == { Part(<<"J", "F", "K">>, TRUE), Part(<<"K", "J", "F", "K">>, TRUE), Part(<<"J", "F">>, FALSE) }
NotamRunways == { Part(<<"0", "4", "L", "/", "2", "2", "R">>, TRUE), Part(<<"1", "3", "/", "3", "1">>, TRUE), Part(<<"4", "L", "/", "2", "2", "R">>, FALSE) }
NotamStates == { Part(CLSD, TRUE), Part(<<"O", "P", "E", "N">>, FALSE) }
FullValidity == Part(<<"2", "2", "0", "9", "2", "6", "1", "2", "0", "0", "-", "2", "2", "0", "9", "2", "7", "2", "3", "5", "9">>, TRUE)
StartOnlyValidity == Part(<<"2", "2", "0", "9", "2", "6", "1", "2", "0", "0">>, FALSE)
NoValidity == Part(<<>>, FALSE)
NotamNumber == <<"0", "9", "/", "1", "2", "3">>

Notam(present, marked, location, runway, state, validity) ==
    [present |-> present, marked |-> marked, location |-> location, runway |-> runway,
     state |-> state, validity |-> validity]
NotamText(n) ==
    IF ~n.present THEN <<>>
    ELSE Join(<<(IF n.marked THEN Bang ELSE <<>>) \o n.location.text, NotamNumber,
                n.location.text, RWY, n.runway.text, n.state.text>>
              \o (IF n.validity.text = <<>> THEN <<>> ELSE <<n.validity.text>>))

AbsentNotam == Notam(FALSE, TRUE, Part(<<"J", "F", "K">>, TRUE), Part(<<"1", "3", "/", "3", "1">>, TRUE), Part(CLSD, TRUE), NoValidity)
NotamInputs ==
    { Notam(TRUE, marked, location, runway, state, validity) :
        marked \in BOOLEAN,
        location \in NotamLocations,
        runway \in NotamRunways,
        state \in NotamStates,
        validity \in {FullValidity, StartOnlyValidity, NoValidity} }
    \cup {AbsentNotam}

NotamInit ==
    /\ FetchIdle
    /\ RouteIdle
    /\ FormIdle
    /\ fnIn \in NotamInputs
    /\ fnOut = NoResult

ApplyParseNotam ==
    /\ fnOut = NoResult
    /\ fnOut' = [returned |-> parseNotam(NotamText(fnIn))]
    /\ UNCHANGED fnIn
    /\ UNCHANGED <<fetchVars, routeVars, formVars>>

NotamNext == ApplyParseNotam

SpecNotam == NotamInit /\ [][NotamNext]_vars

\* ------------------------------------------------------ claims: parseNotam
\* The notice is as the expression expects it, in every part but the validity
\* interval.
WellFormedButValidity(n) ==
    /\ n.present
    /\ n.marked
    /\ n.location.expected
    /\ n.runway.expected
    /\ n.state.expected

\* C21: a notice without a validity interval is extracted all the same: the
\* record shows its location and the runway affected, and no failure is
\* reported.
C21_MissingValidityExtracted ==
    (Parsed /\ WellFormedButValidity(fnIn) /\ fnIn.validity = NoValidity) =>
        /\ fnOut.returned # Null
        /\ fnOut.returned.summary # UnableToParseNotam
        /\ includes(fnOut.returned.summary, fnIn.location.text)
        /\ includes(fnOut.returned.summary, fnIn.runway.text)

\* A notice in the expected form is extracted in full.
CompleteNotamExtracted ==
    (Parsed /\ WellFormedButValidity(fnIn) /\ fnIn.validity = FullValidity) =>
        fnOut.returned.summary =
            <<"L", "o", "c", "a", "t", "i", "o", "n", ":", " ">> \o fnIn.location.text \o <<",", " ", "R", "u", "n", "w", "a", "y", ":", " ">> \o fnIn.runway.text
            \o <<" ", "c", "l", "o", "s", "e", "d", ",", " ", "V", "a", "l", "i", "d", ":", " ", "2", "2", "0", "9", "2", "6", "1", "2", "0", "0", " ", "t", "o", " ", "2", "2", "0", "9", "2", "7", "2", "3", "5", "9">>

\* ------------------------------------------------- the generators' draws
\* Math.random() takes the values r / RandomSteps, r in 0 .. RandomSteps - 1.
RandomSteps == 40
RandomDraws == 0 .. RandomSteps - 1

\* Math.floor(Math.random() * n)
floorRandom(n, r) == (n * r) \div RandomSteps

\* Math.round(base + Math.random() * span)
roundRandom(base, span, r) == (2 * RandomSteps * base + 2 * span * r + RandomSteps) \div (2 * RandomSteps)

\* formatDate, for a clock within the first month of the epoch.
formatDate(t) ==
    padStart0(1 + t \div DAY_MS, 2)
    \o padStart0((t % DAY_MS) \div (60 * 60 * 1000), 2)
    \o padStart0((t % (60 * 60 * 1000)) \div (60 * 1000), 2)

conditions == <<"CLR", "FEW", "SCT", "BKN">>

\* A generator whose temperatures start at 10 degrees.
MockCoordinatesRaw_Cooler(d, t) ==
    LET temp == roundRandom(10, 15, d.temp)
        windSpeed == roundRandom(0, 20, d.speed)
        visibility == roundRandom(5, 5, d.vis)
        condition == conditions[floorRandom(Len(conditions), d.cond) + 1]
    IN  RawText(<< >>, MOCK,
            << formatDate(t) \o "Z",
               padStart0(roundRandom(0, 360, d.dir), 3) \o padStart0(windSpeed, 2) \o "KT",
               ToString(visibility) \o "SM",
               condition \o "025",
               padStart0(temp, 2) \o "/15",
               "A3000" >>)

\* generateMockWeatherForCoordinates: the report text it writes.
MockCoordinatesRaw(d, t) ==
    LET temp == roundRandom(15, 15, d.temp)
        windSpeed == roundRandom(0, 20, d.speed)
        visibility == roundRandom(5, 5, d.vis)
        condition == conditions[floorRandom(Len(conditions), d.cond) + 1]
    IN  RawText(<< >>, MOCK,
            << formatDate(t) \o "Z",
               padStart0(roundRandom(0, 360, d.dir), 3) \o padStart0(windSpeed, 2) \o "KT",
               ToString(visibility) \o "SM",
               condition \o "025",
               padStart0(temp, 2) \o "/15",
               "A3000" >>)

\* The generators applied to the draws r (temperature) and q (dew point,
\* wind and the rest).
MockInputs == [generator : {"generateMockMetar", "generateMockWeatherForCoordinates"},
               r : RandomDraws, q : RandomDraws]

MockInit ==
    /\ FetchIdle
    /\ RouteIdle
    /\ FormIdle
    /\ fnIn \in MockInputs
    /\ fnOut = NoResult

ApplyGenerateMock ==
    /\ fnOut = NoResult
    /\ fnOut' =
          IF fnIn.generator = "generateMockMetar"
          THEN [returned |->
                   generateMockMetar(KJFK,
                       [temp |-> floorRandom(20, fnIn.r), dew |-> floorRandom(7, fnIn.q),
                        dir |-> floorRandom(36, fnIn.q), speed |-> floorRandom(20, fnIn.q),
                        alt |-> floorRandom(30, fnIn.q)], now)]
          ELSE [returned |->
                   [raw |-> MockCoordinatesRaw(
                                [temp |-> fnIn.r, speed |-> fnIn.q, vis |-> fnIn.q,
                                 cond |-> fnIn.q, dir |-> fnIn.q], now),
                    observationTime |-> now,
                    station |-> MOCK,
                    source |-> "generated"]]
    /\ UNCHANGED fnIn
    /\ UNCHANGED <<fetchVars, routeVars, formVars>>

MockNext == ApplyGenerateMock

SpecMock == MockInit /\ [][MockNext]_vars

\* ------------------------------------------------ claims: mock generators
\* The temperature group of a generated report, and the readings it can
\* stand for.
TempDewGroup(record) == record.raw.rest[5]
Readings == 0 .. 40
Reads(group, temp, dew) ==
    \/ group = ToString(temp) \o "/" \o ToString(dew)
    \/ group = padStart0(temp, 2) \o "/" \o padStart0(dew, 2)

\* C23: every report made up by generateMockMetar or by
\* generateMockWeatherForCoordinates has a dew point that is not above its
\* temperature, whatever the random draws.
C23_DewPointNotAboveTemperature ==
    fnOut # NoResult =>
        \E temp \in Readings, dew \in Readings :
            /\ Reads(TempDewGroup(fnOut.returned), temp, dew)
            /\ dew <= temp

\* A report whose dew point equals its temperature has been generated.
C23_Witness ==
    /\ fnOut # NoResult
    /\ fnIn.generator = "generateMockWeatherForCoordinates"
    /\ TempDewGroup(fnOut.returned) = "15/15"

\* ---------------------------------------------------------------------
\* The handlers' responses.

Responded == hpc = "responded"
Answer == resp[Len(resp)]
Analyzed ==
    /\ Responded
    /\ req.handler = "analyzeSafety"
    /\ Answer.status = 200

\* C24: for n waypoints a briefing has exactly max(n - 1, 0) segments, the
\* i-th from waypoint i to waypoint i + 1, with exactly one weather retrieval
\* for each; with at most one waypoint it has no segments and no alerts and
\* the favourable summary.
C24_SegmentsOfBriefing ==
    Briefed =>
        LET n == Len(req.waypoints)
            segments == Briefing.weatherBySegment
        IN  /\ Len(segments) = (IF n > 1 THEN n - 1 ELSE 0)
            /\ \A i \in DOMAIN segments :
                  /\ segments[i].from = req.waypoints[i]
                  /\ segments[i].to = req.waypoints[i + 1]
            /\ fetches = Len(segments)
            /\ n <= 1 =>
                  /\ segments = <<>>
                  /\ Briefing.alerts = <<>>
                  /\ Briefing.summary = "Route conditions are generally favorable for flight."

C24_Witness ==
    /\ Briefed
    /\ fetches = MaxWaypoints - 1
    /\ Briefing.weatherBySegment[1].from # Briefing.weatherBySegment[1].to

\* The required input of the request is missing.
InputMissing ==
    IF req.handler = "getRouteBriefing" THEN ~req.isArray
    ELSE IF req.handler = "analyzeSafety" THEN req.plan \in {"missing", "noWaypoints"}
    ELSE req.origin = "" \/ req.destination = ""

\* A step of the handler threw.
StepThrew ==
    IF req.handler = "getRouteBriefing"
    THEN /\ Len(req.waypoints) > 1
         /\ \E k \in DOMAIN req.waypoints : req.waypoints[k] = NullPoint
    ELSE IF req.handler = "analyzeSafety"
    THEN \/ req.plan = "notIterable"
         \/ \E k \in DOMAIN req.waypoints : req.waypoints[k] = NullPoint
    ELSE IF req.handler = "generate" THEN req.throws
    ELSE FALSE

\* C26: a request gets exactly one response: a handler that has finished has
\* sent one, a handler that has not is waiting for a weather lookup and has
\* sent none, and no handler sends two. The response is 400 exactly when the
\* required input is missing, and then no weather was fetched; 500 exactly
\* when a step threw; 200 with success otherwise.
C26_ExactlyOneResponse ==
    /\ Len(resp) <= 1
    /\ Responded <=> Len(resp) = 1
    /\ hpc = "awaiting" => pending > 0
    /\ Responded =>
          /\ Answer.status \in {200, 400, 500}
          /\ Answer.status = 400 <=> InputMissing
          /\ Answer.status = 400 => fetches = 0
          /\ Answer.status = 500 <=> (~InputMissing /\ StepThrew)
          /\ Answer.status = 200 => Answer.success

C26_Witness ==
    /\ Responded
    /\ req.handler = "getRouteBriefing"
    /\ Answer.status = 500
    /\ fetches > 0

\* C27: the weather along a segment has a departure and an arrival that are
\* not null whenever both waypoints carry a station id or numeric
\* coordinates, coordinates equal to 0 included, and exactly one enroute
\* entry.
C27_EndsResolved ==
    Briefed =>
        \A k \in DOMAIN Briefing.weatherBySegment :
            LET routeWeather == Briefing.weatherBySegment[k].conditions
            IN  /\ routeWeather.departure # NoWeather
                /\ routeWeather.arrival # NoWeather
                /\ Len(routeWeather.enroute) = 1

\* Without a coordinate equal to 0 both ends are resolved.
NonzeroEndsResolved ==
    Briefed =>
        \A k \in DOMAIN Briefing.weatherBySegment :
            LET segment == Briefing.weatherBySegment[k]
            IN  /\ (segment.from.icao # NoIcao \/ (segment.from.lat # 0 /\ segment.from.lon # 0)) =>
                    segment.conditions.departure # NoWeather
                /\ (segment.to.icao # NoIcao \/ (segment.to.lat # 0 /\ segment.to.lon # 0)) =>
                    segment.conditions.arrival # NoWeather
                /\ Len(segment.conditions.enroute) = 1

\* C28: a plan with a SEVERE waypoint is never given the overall risk LOW,
\* and the safety score lies in 0..100 and is max(0, 100 - 10 * severe -
\* 5 * significant).
C28_SevereNeverLow ==
    Analyzed =>
        LET severe == Cardinality({k \in DOMAIN req.waypoints : req.waypoints[k].severity = "SEVERE"})
            significant ==
                Cardinality({k \in DOMAIN req.waypoints : req.waypoints[k].severity = "SIGNIFICANT"})
            score == 100 - 10 * severe - 5 * significant
        IN  /\ Answer.analysis.safetyScore \in 0..100
            /\ Answer.analysis.safetyScore = (IF score > 0 THEN score ELSE 0)
            /\ severe >= 1 => Answer.analysis.overallRisk # "LOW"

\* The safety score alone.
SafetyScoreFromCounts ==
    Analyzed =>
        LET severe == Cardinality({k \in DOMAIN req.waypoints : req.waypoints[k].severity = "SEVERE"})
            significant ==
                Cardinality({k \in DOMAIN req.waypoints : req.waypoints[k].severity = "SIGNIFICANT"})
            score == 100 - 10 * severe - 5 * significant
        IN  /\ Answer.analysis.safetyScore \in 0..100
            /\ Answer.analysis.safetyScore = (IF score > 0 THEN score ELSE 0)

\* ---------------------------------------------------------------------
\* Overlapping and invalid calls of the fetcher.

\* Call c is invoked in this step.
Invoked(c) == pc[c] = "idle" /\ pc'[c] # "idle"

\* The primary request of call c succeeds in this step and its result is
\* cached.
Stores(c) == pc[c] = "awaiting" /\ pc'[c] = "done" /\ outcome'[c] = "ok"

\* The cache holds the result of the primary request of call b.
HoldsResultOf(b) ==
    /\ pc[b] = "done"
    /\ outcome[b] = "ok"
    /\ CacheKey(args[b].product, args[b].icao) \in DOMAIN cache
    /\ cache[CacheKey(args[b].product, args[b].icao)].data = result[b]

\* C25: when two fetches for the same key overlap, the cache entry is never
\* replaced by the result of a request issued earlier than the one whose
\* result the cache holds (calls are numbered in the order they are made).
C25_NoOlderOverwrite ==
    [][\A c \in Calls, b \in Calls :
          (/\ c < b
           /\ CacheKey(args[c].product, args[c].icao) = CacheKey(args[b].product, args[b].icao)
           /\ HoldsResultOf(b)
           /\ sentAt[c] <= cache[CacheKey(args[b].product, args[b].icao)].timestamp)
          => ~Stores(c)]_vars

\* C30: a call with a missing or empty station id is rejected with 'ICAO
\* code is required' before any cache lookup and before any request: it issues
\* no request, is not served from the cache, and leaves the cache as it was.
C30_MissingStationRejected ==
    [][\A c \in Calls :
          (Invoked(c) /\ args'[c].icao = EmptyIcao) =>
              /\ pc'[c] = "rejected"
              /\ result'[c] = [error |-> "ICAO code is required"]
              /\ outcome'[c] = "invalid"
              /\ attempts'[c] = 0
              /\ sentAt'[c] = 0
              /\ cache' = cache]_vars

\* An empty station id was rejected while the cache held an entry.
C30_Witness ==
    \E c \in Calls :
        /\ pc[c] = "rejected"
        /\ args[c].icao = EmptyIcao
        /\ result[c] = [error |-> "ICAO code is required"]
        /\ cache # EmptyCache

\* ---------------------------------------------------------------------
\* FlightForm: the debounced airport lookup of the origin and destination
\* fields. Both fields run the same effect, each on its own state.

KJF == <<"K", "J", "F">>

\* What the inputs and the sample buttons put into a field: upper case, at
\* most four characters.
FieldValues == {EmptyIcao, KJF, KJFK, KLAX}

\* How airportAPI.getAirportInfo settles: with a named airport, with none, or
\* rejected.
LookupKinds == {"found", "notfound", "error"}

\* info.airport of a lookup that found the station.
Airport(icao) == [icao |-> icao, name |-> icao \o <<" ", "A", "I", "R", "P", "O", "R", "T">>]

\* setOrigin / setDestination with a new value, and the effect it triggers:
\* the cleanup of the previous effect clears its timer; then a value that is
\* not four characters long resets the lookup, and any other starts the
\* debounce timer.
SetField(f, value) ==
    /\ value # form[f].value
    /\ form' = [form EXCEPT ![f] =
                   IF value = EmptyIcao \/ Len(value) # 4
                   THEN [@ EXCEPT !.value = value, !.info = NoInfo, !.lookup = "idle",
                                  !.timer = NoTimer]
                   ELSE [@ EXCEPT !.value = value, !.lookup = "loading",
                                  !.timer = [set |-> TRUE, icao |-> value]]]
    /\ UNCHANGED <<fetchVars, routeVars, fnVars>>

\* The debounce timer fires: the request for the value the effect closed
\* over goes out.
TimerFires(f) ==
    /\ form[f].timer.set
    /\ form' = [form EXCEPT ![f] =
                   [@ EXCEPT !.inflight = @ \cup {toUpperCase(form[f].timer.icao)},
                             !.timer = NoTimer]]
    /\ UNCHANGED <<fetchVars, routeVars, fnVars>>

\* A request settles and the rest of the timer callback runs.
LookupSettles(f, icao, kind) ==
    /\ icao \in form[f].inflight
    /\ form' = [form EXCEPT ![f] =
                   [@ EXCEPT !.inflight = @ \ {icao},
                             !.info = IF kind = "found" THEN Airport(icao) ELSE NoInfo,
                             !.lookup = IF kind = "found" THEN "ok" ELSE kind]]
    /\ UNCHANGED <<fetchVars, routeVars, fnVars>>

FormInit ==
    /\ FetchIdle
    /\ RouteIdle
    /\ FormIdle
    /\ FnIdle

FormNext ==
    \/ \E f \in Fields, value \in FieldValues : SetField(f, value)
    \/ \E f \in Fields : TimerFires(f)
    \/ \E f \in Fields, icao \in FieldValues, kind \in LookupKinds : LookupSettles(f, icao, kind)

SpecForm == FormInit /\ [][FormNext]_vars

\* C29: whenever the lookup state of a field is 'ok' the airport shown is the
\* lookup result for the field's current value, and whenever the value is not
\* exactly four characters long the state is 'idle' and no airport is shown.
C29_LookupMatchesField ==
    \A f \in Fields :
        /\ form[f].lookup = "ok" => form[f].info = Airport(toUpperCase(form[f].value))
        /\ Len(form[f].value) # 4 => (form[f].lookup = "idle" /\ form[f].info = NoInfo)

====
